---- MODULE Spec2Model ----
(***************************************************************************)
(* Model of src/jobs/scrapers/ncr/python_scripts/extract_tables_tabula.py  *)
(*                                                                         *)
(* One run of the script is one behaviour: the __main__ block validates    *)
(* sys.argv, then extract_tables_from_pdf calls tabula.read_pdf in lattice *)
(* mode, falls back to stream mode when that returned an empty list,       *)
(* replaces NaN by None in every table, flattens the rows into one list    *)
(* and prints json.dumps of it.  The try block of the function spans all   *)
(* of that; its handler prints an error object to stderr and exits 1.      *)
(*                                                                         *)
(* tabula.read_pdf is an external library: each call either returns a      *)
(* list of tables or raises an exception, chosen nondeterministically.     *)
(***************************************************************************)
EXTENDS Integers, Sequences, FiniteSets, TLC

\* ---------------------------------------------------------------- bounds
\* most tables one detection call returns
MaxTables == 2
\* most rows, summed over the tables, one detection call returns
MaxRows == 3

\* ----------------------------------------------------------- environment
ProgramName == "extract_tables_tabula.py"

Paths == {"/tmp/does-not-exist.pdf", "/tmp", "/data/report.pdf"}

\* what each path names on the filesystem of the run
FileSystem ==
    [p \in Paths |->
        CASE p = "/tmp/does-not-exist.pdf" -> "absent"
          [] p = "/tmp"                    -> "directory"
          [] OTHER                         -> "file"]

\* sys.argv of a run: the program name, then the arguments given
ArgvSet == {<<ProgramName>>} \cup {<<ProgramName, p>> : p \in Paths}

\* os.path.exists: true of whatever the path names, a directory included
OsPathExists(p) == FileSystem[p] # "absent"

\* ------------------------------------------------------------ cell values
\* A cell of a DataFrame: its Python type and the repr of its value.
\* "nan" is numpy.nan; "obj" is a value of a type json cannot encode.
CellValues ==
    { [t |-> "int",   v |-> "3"],
      [t |-> "float", v |-> "3.14"],
      [t |-> "str",   v |-> "N/A"],
      [t |-> "bool",  v |-> "True"],
      [t |-> "nan",   v |-> "nan"],
      [t |-> "obj",   v |-> "Timestamp"] }

PyNone == [t |-> "none", v |-> "None"]

\* column labels of the tables the detection returns
ColumnSets == {{"Price"}}

\* the rows a table over the columns cs can hold
RowsOver(cs) == [cs -> CellValues]

\* the rows a table can hold
Rows == UNION {RowsOver(cs) : cs \in ColumnSets}

\* s[1] + ... + s[j]
RECURSIVE SumTo(_, _)
SumTo(s, j) == IF j = 0 THEN 0 ELSE s[j] + SumTo(s, j - 1)

\* the row counts of the tables of one detection result: at most MaxTables
\* tables holding at most MaxRows rows together
TableSizes ==
    { s \in UNION {[1..k -> 0..MaxRows] : k \in 0..MaxTables} : SumTo(s, Len(s)) <= MaxRows }

\* the list of tables (DataFrames, each the sequence of its rows) whose row
\* counts are s and whose rows, in discovery order, are flat
TablesOf(s, flat) ==
    [j \in 1..Len(s) |-> SubSeq(flat, SumTo(s, j - 1) + 1, SumTo(s, j))]

\* whether every row of a table has the same column labels
IsTable(df) == \A i, j \in 1..Len(df) : DOMAIN df[i] = DOMAIN df[j]

\* the descriptions of the exceptions tabula.read_pdf can raise
DetectionErrors == {"java not found", "corrupt pdf"}

\* the outcomes of one call of tabula.read_pdf
Returned(tables) == [raised |-> FALSE, tables |-> tables, desc |-> ""]
Raised(e) == [raised |-> TRUE, tables |-> <<>>, desc |-> e]

\* ------------------------------------------------------------------ state
VARIABLES
    argv,                \* sys.argv
    pc,                  \* the statement the run is at
    pdf_file_path,       \* __main__: pdf_file_path
    df_list,             \* extract_tables_from_pdf: df_list
    all_extracted_data,  \* extract_tables_from_pdf: all_extracted_data
    exc,                 \* the exception in flight, for the except clause
    stdout,              \* the lines written to standard output
    stderr,              \* the lines written to standard error
    exit_code,           \* the exit status, -1 while running
    calls,               \* history: the calls of tabula.read_pdf made
    exists_calls         \* history: the number of os.path.exists calls made

vars == <<argv, pc, pdf_file_path, df_list, all_extracted_data, exc,
          stdout, stderr, exit_code, calls, exists_calls>>

NoException == [origin |-> "none", desc |-> ""]

Init ==
    /\ argv \in ArgvSet
    /\ pc = "main"
    /\ pdf_file_path = ""
    /\ df_list = <<>>
    /\ all_extracted_data = <<>>
    /\ exc = NoException
    /\ stdout = <<>>
    /\ stderr = <<>>
    /\ exit_code = -1
    /\ calls = <<>>
    /\ exists_calls = 0

\* ---------------------------------------------------------- pure helpers
\* the error object the script serializes: {"error": ..., "message": ...}
ErrorMessage(category, detail) == [error |-> category, message |-> detail]

UsageHint == "Usage: python extract_tables_tabula.py <pdf_path>"

\* f"PDF file not found at: {pdf_file_path}"
FileNotFoundDetail(p) == "PDF file not found at: " \o p

\* mutant: the description of the exception is dropped
ExtractionErrorNoDetail(e) == ErrorMessage("PDF extraction failed", "")

\* {"error": "PDF extraction failed", "message": str(e)}
ExtractionError(e) == ErrorMessage("PDF extraction failed", e.desc)

\* mutant: stream mode is tried whenever lattice found at most one table
NotDfListAtMostOne(dfs) == Len(dfs) <= 1

\* `not df_list`: true of the empty list only
NotDfList(dfs) == dfs = <<>>

\* mutant: the NaN replacement is left out
ReplaceNothing(c) == c

\* one cell under df.replace({np.nan: None})
ReplaceNaN(c) == IF c.t = "nan" THEN PyNone ELSE c

\* df.copy().replace({np.nan: None}).to_dict(orient='records'):
\* one dict per row, keyed by column label
ToDictRecords(df) ==
    [i \in 1..Len(df) |-> [k \in DOMAIN df[i] |-> ReplaceNaN(df[i][k])]]

\* mutant: the records of a table go in front of those collected so far
ExtendFront(acc, records) == records \o acc

\* all_extracted_data.extend(records)
Extend(acc, records) == acc \o records

\* the for loop over df_list, from the index i on
RECURSIVE ExtractLoop(_, _, _)
ExtractLoop(dfs, i, acc) ==
    IF i > Len(dfs) THEN acc
    ELSE ExtractLoop(dfs, i + 1, Extend(acc, ToDictRecords(dfs[i])))

\* whether json.dumps can encode the cell (it raises TypeError otherwise)
JsonEncodable(c) == c.t # "obj"

\* json.dumps of one cell: the JSON token written
JsonDumpsCell(c) ==
    CASE c.t = "none"  -> [jtype |-> "null",    text |-> "null"]
      [] c.t = "bool"  -> [jtype |-> "boolean",
                           text  |-> IF c.v = "True" THEN "true" ELSE "false"]
      [] c.t = "int"   -> [jtype |-> "number",  text |-> c.v]
      [] c.t = "float" -> [jtype |-> "number",  text |-> c.v]
      [] c.t = "str"   -> [jtype |-> "string",  text |-> "\"" \o c.v \o "\""]
      [] c.t = "nan"   -> [jtype |-> "NaN",     text |-> "NaN"]

\* json.dumps of the list of records: a JSON array of objects
JsonDumps(data) ==
    [i \in 1..Len(data) |-> [k \in DOMAIN data[i] |-> JsonDumpsCell(data[i][k])]]

\* whether json.dumps(data) raises TypeError
JsonDumpsRaises(data) ==
    \E i \in 1..Len(data) : \E k \in DOMAIN data[i] : ~JsonEncodable(data[i][k])

\* ---------------------------------------------------------------- actions
\* mutant: the sys.exit(1) after the "No PDF path provided" message is missing,
\* so that sys.argv[1] raises IndexError and the interpreter prints a traceback
CheckArgsNoExit ==
    /\ pc = "main"
    /\ IF Len(argv) < 2
       THEN /\ stderr' = stderr \o
                    << ErrorMessage("No PDF path provided", UsageHint),
                       ErrorMessage("IndexError", "list index out of range") >>
            /\ exit_code' = 1
            /\ pc' = "exited"
            /\ UNCHANGED pdf_file_path
       ELSE /\ pdf_file_path' = argv[2]
            /\ pc' = "check_path"
            /\ UNCHANGED <<stderr, exit_code>>
    /\ UNCHANGED <<argv, df_list, all_extracted_data, exc, stdout, calls, exists_calls>>

\* __main__: the argument count check, then pdf_file_path = sys.argv[1]
CheckArgs ==
    /\ pc = "main"
    /\ IF Len(argv) < 2
       THEN /\ stderr' = Append(stderr, ErrorMessage("No PDF path provided", UsageHint))
            /\ exit_code' = 1
            /\ pc' = "exited"
            /\ UNCHANGED pdf_file_path
       ELSE /\ pdf_file_path' = argv[2]
            /\ pc' = "check_path"
            /\ UNCHANGED <<stderr, exit_code>>
    /\ UNCHANGED <<argv, df_list, all_extracted_data, exc, stdout, calls, exists_calls>>

\* __main__: the os.path.exists check, then the call of extract_tables_from_pdf
CheckPath ==
    /\ pc = "check_path"
    /\ exists_calls' = exists_calls + 1
    /\ IF ~OsPathExists(pdf_file_path)
       THEN /\ stderr' = Append(stderr,
                    ErrorMessage("File not found", FileNotFoundDetail(pdf_file_path)))
            /\ exit_code' = 1
            /\ pc' = "exited"
       ELSE /\ pc' = "lattice"
            /\ UNCHANGED <<stderr, exit_code>>
    /\ UNCHANGED <<argv, pdf_file_path, df_list, all_extracted_data, exc, stdout, calls>>

\* the rows, in discovery order, that tables of the row counts s can hold
RowSequences(s) ==
    { flat \in [1..SumTo(s, Len(s)) -> Rows] :
        \A j \in 1..Len(s) : IsTable(TablesOf(s, flat)[j]) }

LatticeOutcome(out) ==
    /\ calls' = Append(calls, [mode |-> "lattice", path |-> pdf_file_path,
                               outcome |-> out])
    /\ IF out.raised
       THEN /\ exc' = [origin |-> "lattice", desc |-> out.desc]
            /\ pc' = "except"
            /\ UNCHANGED df_list
       ELSE /\ df_list' = out.tables
            /\ pc' = IF NotDfList(out.tables) THEN "stream" ELSE "normalize"
            /\ UNCHANGED exc

\* df_list = tabula.read_pdf(..., lattice=True, ...), then `if not df_list`:
\* the call returns some list of tables or raises
TryLattice ==
    /\ pc = "lattice"
    /\ \/ \E s \in TableSizes : \E flat \in RowSequences(s) :
              LatticeOutcome(Returned(TablesOf(s, flat)))
       \/ \E e \in DetectionErrors : LatticeOutcome(Raised(e))
    /\ UNCHANGED <<argv, pdf_file_path, all_extracted_data, stdout, stderr, exit_code,
                   exists_calls>>

StreamOutcome(out) ==
    /\ calls' = Append(calls, [mode |-> "stream", path |-> pdf_file_path,
                               outcome |-> out])
    /\ IF out.raised
       THEN /\ exc' = [origin |-> "stream", desc |-> out.desc]
            /\ pc' = "except"
            /\ UNCHANGED df_list
       ELSE /\ df_list' = out.tables
            /\ pc' = "normalize"
            /\ UNCHANGED exc

\* df_list = tabula.read_pdf(..., stream=True, ...)
TryStream ==
    /\ pc = "stream"
    /\ \/ \E s \in TableSizes : \E flat \in RowSequences(s) :
              StreamOutcome(Returned(TablesOf(s, flat)))
       \/ \E e \in DetectionErrors : StreamOutcome(Raised(e))
    /\ UNCHANGED <<argv, pdf_file_path, all_extracted_data, stdout, stderr, exit_code,
                   exists_calls>>

\* all_extracted_data = [], then the for loop over df_list
Normalize ==
    /\ pc = "normalize"
    /\ all_extracted_data' = ExtractLoop(df_list, 1, <<>>)
    /\ pc' = "dumps"
    /\ UNCHANGED <<argv, pdf_file_path, df_list, exc, stdout, stderr, exit_code,
                   calls, exists_calls>>

\* mutant: an empty result is reported as a failure
EmitSuccessNoEmpty ==
    /\ pc = "dumps"
    /\ IF JsonDumpsRaises(all_extracted_data) \/ all_extracted_data = <<>>
       THEN /\ exc' = [origin |-> "dumps", desc |-> "No tables found"]
            /\ pc' = "except"
            /\ UNCHANGED <<stdout, exit_code>>
       ELSE /\ stdout' = Append(stdout, JsonDumps(all_extracted_data))
            /\ exit_code' = 0
            /\ pc' = "exited"
            /\ UNCHANGED exc
    /\ UNCHANGED <<argv, pdf_file_path, df_list, all_extracted_data, stderr, calls,
                   exists_calls>>

\* print(json.dumps(all_extracted_data)), the last statement of the try block;
\* after it the function returns and the script ends with status 0
EmitSuccess ==
    /\ pc = "dumps"
    /\ IF JsonDumpsRaises(all_extracted_data)
       THEN /\ exc' = [origin |-> "dumps",
                       desc |-> "Object of type Timestamp is not JSON serializable"]
            /\ pc' = "except"
            /\ UNCHANGED <<stdout, exit_code>>
       ELSE /\ stdout' = Append(stdout, JsonDumps(all_extracted_data))
            /\ exit_code' = 0
            /\ pc' = "exited"
            /\ UNCHANGED exc
    /\ UNCHANGED <<argv, pdf_file_path, df_list, all_extracted_data, stderr, calls,
                   exists_calls>>

\* mutant: the error object is printed without file=sys.stderr
EmitFailureToStdout ==
    /\ pc = "except"
    /\ stdout' = Append(stdout, ExtractionError(exc))
    /\ exit_code' = 1
    /\ pc' = "exited"
    /\ UNCHANGED <<argv, pdf_file_path, df_list, all_extracted_data, exc, stderr,
                   calls, exists_calls>>

\* except Exception as e: the error object to stderr, then sys.exit(1)
EmitFailure ==
    /\ pc = "except"
    /\ stderr' = Append(stderr, ExtractionError(exc))
    /\ exit_code' = 1
    /\ pc' = "exited"
    /\ UNCHANGED <<argv, pdf_file_path, df_list, all_extracted_data, exc, stdout,
                   calls, exists_calls>>

Next ==
    \/ CheckArgs
    \/ CheckPath
    \/ TryLattice
    \/ TryStream
    \/ Normalize
    \/ EmitSuccess
    \/ EmitFailure

Spec == Init /\ [][Next]_vars

\* ------------------------------------------------------------- properties
Exited == pc = "exited"

\* the supplied path names something, so that the run reaches the extraction
PassedValidation == Len(argv) >= 2 /\ FileSystem[argv[2]] # "absent"

IsJsonArray(doc) == DOMAIN doc = 1..Len(doc)

Categories == {"No PDF path provided", "File not found", "PDF extraction failed"}

SuccessOutcome ==
    /\ exit_code = 0
    /\ stderr = <<>>
    /\ Len(stdout) = 1
    /\ IsJsonArray(stdout[1])

FailureOutcome ==
    /\ exit_code >= 1
    /\ stdout = <<>>
    /\ Len(stderr) = 1
    /\ stderr[1].error \in Categories

\* the tables of the detection call whose result the run uses
UsedTables ==
    IF calls[1].outcome.tables # <<>> THEN calls[1].outcome.tables
    ELSE calls[Len(calls)].outcome.tables

\* the rows of a list of tables, table after table
RECURSIVE FlatRows(_)
FlatRows(tables) ==
    IF tables = <<>> THEN <<>> ELSE Head(tables) \o FlatRows(Tail(tables))

SomeCallRaised == \E i \in 1..Len(calls) : calls[i].outcome.raised

\* C1: a run that has ended has written either one JSON array to stdout,
\* nothing to stderr, with exit code 0, or one JSON error object to stderr,
\* nothing to stdout, with a non-zero exit code; a run that has not ended has
\* written nothing yet and can take a further step, so it ends with neither
\* payload missing and never with both.
C1_ExactlyOneOutcome ==
    /\ Exited => (SuccessOutcome \/ FailureOutcome)
    /\ ~Exited => (stdout = <<>> /\ stderr = <<>> /\ exit_code = -1 /\ ENABLED Next)

\* a run ended by an exception of the stream call, after an empty lattice result
C1_Witness ==
    /\ Exited
    /\ exc.origin = "stream"
    /\ FailureOutcome

\* C2: the first detection call is in lattice mode and is made once; a second
\* call is in stream mode, is the last, and is made only after the lattice
\* call returned the empty list; a run that passed validation and is past
\* the lattice statement has made the lattice call.
C2_LatticeThenStream ==
    /\ Len(calls) <= 2
    /\ Len(calls) >= 1 => calls[1].mode = "lattice"
    /\ Len(calls) = 2 =>
          /\ calls[2].mode = "stream"
          /\ ~calls[1].outcome.raised
          /\ calls[1].outcome.tables = <<>>
    /\ (PassedValidation /\ pc \notin {"main", "check_path", "lattice"}) => Len(calls) >= 1
    /\ pc = "stream" => Len(calls) = 1
    /\ (Len(calls) >= 1 /\ ~calls[1].outcome.raised /\ Len(calls[1].outcome.tables) >= 1
          /\ pc # "lattice") => (Len(calls) = 1 /\ pc # "stream")

\* a run that ended with lattice mode having returned one table of one row
C2_Witness ==
    /\ Exited
    /\ Len(calls) = 1
    /\ ~calls[1].outcome.raised
    /\ Len(calls[1].outcome.tables) = 1
    /\ Len(calls[1].outcome.tables[1]) = 1

\* C3 (as claimed): whenever the supplied path does not name a file (it names
\* nothing, or names something that is not a file), the run, once past the
\* path check, has ended with "File not found", a message holding the path,
\* exit code 1, and no detection call.
C3_NotAFileRejected ==
    (Len(argv) >= 2 /\ FileSystem[argv[2]] # "file" /\ pc \notin {"main", "check_path"}) =>
        /\ Exited
        /\ exit_code = 1
        /\ stdout = <<>>
        /\ stderr = << [error |-> "File not found",
                        message |-> "PDF file not found at: " \o argv[2]] >>
        /\ calls = <<>>

\* C4: with no path argument the run ends with "No PDF path provided" and
\* exit code 1, and os.path.exists is never called; os.path.exists is called
\* only with an argument present; tabula.read_pdf is called only after both
\* checks passed.
C4_ValidationOrder ==
    /\ (Exited /\ Len(argv) < 2) =>
          /\ stderr = << [error |-> "No PDF path provided",
                          message |-> "Usage: python extract_tables_tabula.py <pdf_path>"] >>
          /\ stdout = <<>>
          /\ exit_code = 1
    /\ Len(argv) < 2 => (exists_calls = 0 /\ calls = <<>> /\ pc \in {"main", "exited"})
    /\ exists_calls <= 1
    /\ calls # <<>> => (Len(argv) >= 2 /\ exists_calls = 1 /\ FileSystem[argv[2]] # "absent")
    /\ (Len(argv) >= 2 /\ FileSystem[argv[2]] = "absent") =>
          pc \in {"main", "check_path", "exited"}

\* a run without a path argument that has ended
C4_Witness == Exited /\ Len(argv) < 2 /\ exit_code = 1

\* C5: once a detection call has raised, it is the last call made, nothing
\* is on stdout, and the run, when ended, has exit code 1 and the one line
\* {"error": "PDF extraction failed", "message": <the exception's text>} on
\* stderr.
C5_DetectionErrorFails ==
    SomeCallRaised =>
        /\ calls[Len(calls)].outcome.raised
        /\ \A i \in 1..(Len(calls) - 1) : ~calls[i].outcome.raised
        /\ stdout = <<>>
        /\ pc \in {"except", "exited"}
        /\ Exited =>
              /\ exit_code = 1
              /\ stderr = << [error |-> "PDF extraction failed",
                              message |-> calls[Len(calls)].outcome.desc] >>

\* a run ended by an exception of the lattice call
C5_Witness ==
    /\ Exited
    /\ Len(calls) = 1
    /\ calls[1].outcome.raised

\* C6: a run in which lattice and stream both returned the empty list ends
\* with exit code 0, the empty JSON array as the one line of stdout, and
\* nothing on stderr.
C6_EmptyIsSuccess ==
    (/\ Exited
     /\ Len(calls) = 2
     /\ ~calls[1].outcome.raised /\ calls[1].outcome.tables = <<>>
     /\ ~calls[2].outcome.raised /\ calls[2].outcome.tables = <<>>) =>
        /\ exit_code = 0
        /\ stdout = << <<>> >>
        /\ stderr = <<>>

\* a run that ended after two empty detection results
C6_Witness ==
    /\ Exited
    /\ PassedValidation
    /\ Len(calls) = 2
    /\ ~calls[2].outcome.raised
    /\ calls[2].outcome.tables = <<>>

\* C7: on success the array has one element per row of the used tables, and
\* its i-th element is the record of the i-th row in table order, then row
\* order; lattice's tables are the used ones whenever there are any, and
\* then no stream call was made.
C7_FlatConcatenation ==
    (Exited /\ exit_code = 0) =>
        LET src == FlatRows(UsedTables)
            out == stdout[1]
        IN  /\ Len(out) = Len(src)
            /\ \A i \in 1..Len(src) :
                  /\ DOMAIN out[i] = DOMAIN src[i]
                  /\ \A k \in DOMAIN src[i] :
                        out[i][k] = JsonDumpsCell(ReplaceNaN(src[i][k]))
            /\ calls[1].outcome.tables # <<>> => Len(calls) = 1

\* a success whose used result has two tables, of two rows and of one row,
\* all three rows different
C7_Witness ==
    /\ Exited
    /\ exit_code = 0
    /\ Len(UsedTables) = 2
    /\ Len(UsedTables[1]) = 2
    /\ Len(UsedTables[2]) = 1
    /\ UsedTables[1][1] # UsedTables[1][2]
    /\ UsedTables[1][1] # UsedTables[2][1]
    /\ UsedTables[1][2] # UsedTables[2][1]

\* C8: on success every record has the column labels of its row; a NaN cell
\* is written as null under its label; an int or float cell is written as
\* the same number, a str cell as the same text in quotes, a bool cell as
\* true or false.
C8_Normalization ==
    (Exited /\ exit_code = 0) =>
        LET src == FlatRows(UsedTables)
            out == stdout[1]
        IN  \A i \in DOMAIN out \cap DOMAIN src :
              /\ DOMAIN out[i] = DOMAIN src[i]
              /\ \A k \in DOMAIN src[i] :
                    LET c == src[i][k]
                        j == out[i][k]
                    IN  /\ c.t = "nan" => j = [jtype |-> "null", text |-> "null"]
                        /\ c.t \in {"int", "float"} =>
                              j = [jtype |-> "number", text |-> c.v]
                        /\ c.t = "str" =>
                              j = [jtype |-> "string", text |-> "\"" \o c.v \o "\""]
                        /\ c.t = "bool" =>
                              j = [jtype |-> "boolean",
                                   text |-> IF c.v = "True" THEN "true" ELSE "false"]

\* a success in stream mode whose rows hold a NaN cell, a float and a string
C8_Witness ==
    /\ Exited
    /\ exit_code = 0
    /\ Len(calls) = 2
    /\ Len(stdout[1]) = 3
    /\ \E i \in 1..3 : FlatRows(UsedTables)[i]["Price"].t = "nan"
    /\ \E i \in 1..3 : FlatRows(UsedTables)[i]["Price"].t = "float"
    /\ \E i \in 1..3 : FlatRows(UsedTables)[i]["Price"].t = "str"

\* C10 (as claimed): the run reports "PDF extraction failed" only when one of
\* the detection calls raised.
C10_ScopeIsDetectionOnly ==
    (Exited /\ \E i \in 1..Len(stderr) : stderr[i].error = "PDF extraction failed") =>
        SomeCallRaised

====
